---- MODULE Spec2Model ----
(***************************************************************************)
(* Model of the checkin package: CheckinRecord, an int64 used as a vector  *)
(* of 64 day bits (bit 0 = today, bit i = i days ago), its mutators, its   *)
(* statistics and its renderings (src/checkin.go), the day-by-day usage    *)
(* shown in Example_DayShift, and CheckinService, which keeps one record   *)
(* per user in the table user_checkin.                                     *)
(*                                                                         *)
(* Encoding.  A CheckinRecord is the set of the indices of its set bits,   *)
(* a subset of 0..63; index 63 is the sign bit of the int64.  The bitwise  *)
(* operators of Go are translated on that encoding:                        *)
(*     a | b   is  a \cup b          a & b  is  a \cap b                   *)
(*     1 << i  is  {i} for 0 <= i < 64 and the empty set for i >= 64       *)
(*     c << 1  moves every index up by one and drops what leaves 0..63     *)
(* A Go string of glyphs is the sequence of its runes; the two glyphs of   *)
(* StringWithDays are the strings CheckGlyph and CrossGlyph.               *)
(***************************************************************************)
EXTENDS Integers, Sequences, FiniteSets

\* type CheckinRecord int64: the number of bits of a record.
Width == 64

\* The default window of String().
DefaultDays == 7

Bits == 0 .. (Width - 1)

\* The rune written for a checked day and for a missed day.
CheckGlyph == "V"
CrossGlyph == "X"

Min(a, b) == IF a <= b THEN a ELSE b

HighestBit(s) == CHOOSE i \in s : \A j \in s : j <= i

-----------------------------------------------------------------------------
(* The operations of CheckinRecord, as operators on the encoding.          *)

\* The Go expression (1 << i) at type CheckinRecord, for a count i >= 0.
OneShl(i) == IF i < Width THEN {i} ELSE {}

\* The Go expression (c & (1 << i)) != 0.
TestBit(c, i) == (c \cap OneShl(i)) # {}

NewCheckinRecord == {}

\* The conversions between the stored int64 and CheckinRecord keep the bits.
FromInt64(value) == value
ToInt64(c) == c

Checkin(c) == c \cup OneShl(0)

\* CheckinDay with the upper limit of the range off by one.
CheckinDayOffByOne(c, day) ==
    IF day < 0 \/ day >= 63 THEN c ELSE c \cup OneShl(day)

CheckinDay(c, day) ==
    IF day < 0 \/ day >= 64 THEN c ELSE c \cup OneShl(day)

IsCheckedToday(c) == (c \cap OneShl(0)) = OneShl(0)

IsCheckedDay(c, day) ==
    IF day < 0 \/ day >= 64 THEN FALSE ELSE TestBit(c, day)

\* A Go for statement is run on its loop state st, a record of the loop's
\* variables and a flag done.  For a loop X, XStep is one pass of the
\* statement (the test of its condition, then its body) and XPasses applies
\* XStep 2^k times at most, stopping as soon as the loop has ended; it splits
\* the passes in halves so that the evaluation nests k deep instead of once
\* per pass.  The loops of the package make 64 passes at most and one more
\* test of the condition to leave, so 2^7 passes are enough for each.

\* One pass of the loop of ContinuousDays: count++ on a set bit, break on a
\* clear one.
ContinuousStep(c, st) ==
    IF st.i < 64
    THEN IF TestBit(c, st.i)
         THEN [st EXCEPT !.i = st.i + 1, !.count = st.count + 1]
         ELSE [st EXCEPT !.done = TRUE]
    ELSE [st EXCEPT !.done = TRUE]

RECURSIVE ContinuousPasses(_, _, _)
ContinuousPasses(c, st, k) ==
    IF k = 0
    THEN IF st.done THEN st ELSE ContinuousStep(c, st)
    ELSE LET m == ContinuousPasses(c, st, k - 1)
         IN  IF m.done THEN m ELSE ContinuousPasses(c, m, k - 1)

\* The loop of ContinuousDays going on past a clear bit instead of stopping:
\* every set bit from index i up is counted.
ContinuousLoopNoBreak(c, i, count) ==
    count + Cardinality({j \in i .. 63 : TestBit(c, j)})

\* The loop of ContinuousDays stopping one index short of the sign bit.
ContinuousLoopShort(c, i, count) ==
    ContinuousPasses(c \ {63}, [i |-> i, count |-> count, done |-> FALSE], 7).count

\* The loop of ContinuousDays from index i with count so far.
ContinuousLoop(c, i, count) ==
    ContinuousPasses(c, [i |-> i, count |-> count, done |-> FALSE], 7).count

ContinuousDays(c) == ContinuousLoop(c, 0, 0)

\* The clamp shared by TotalDaysInPeriod, StringWithDays and GetDaysBitmap.
ClampDays(days) == IF days <= 0 \/ days > 64 THEN 64 ELSE days

\* One pass of the loop of TotalDaysInPeriod.
TotalStep(c, days, st) ==
    IF st.i < days
    THEN IF TestBit(c, st.i)
         THEN [st EXCEPT !.i = st.i + 1, !.count = st.count + 1]
         ELSE [st EXCEPT !.i = st.i + 1]
    ELSE [st EXCEPT !.done = TRUE]

RECURSIVE TotalPasses(_, _, _, _)
TotalPasses(c, days, st, k) ==
    IF k = 0
    THEN IF st.done THEN st ELSE TotalStep(c, days, st)
    ELSE LET m == TotalPasses(c, days, st, k - 1)
         IN  IF m.done THEN m ELSE TotalPasses(c, days, m, k - 1)

TotalLoop(c, days, i, count) ==
    TotalPasses(c, days, [i |-> i, count |-> count, done |-> FALSE], 7).count

\* TotalDaysInPeriod without the clamp of the window.
TotalDaysInPeriodNoClamp(c, days) == TotalLoop(c, days, 0, 0)

TotalDaysInPeriod(c, days) == TotalLoop(c, ClampDays(days), 0, 0)

\* ShiftDay as a rotation: bit 63 comes back as bit 0.
ShiftDayRotate(c) == {(i + 1) % Width : i \in c}

ShiftDay(c) == {i + 1 : i \in c} \cap Bits

Clear(c) == {}

\* One pass of the strings.Builder loop of StringWithDays: a glyph for index
\* i is written after those of the indices below it.
BuildStep(c, days, st) ==
    IF st.i < days
    THEN [st EXCEPT !.i = st.i + 1,
                    !.result = Append(st.result,
                                      IF TestBit(c, st.i) THEN CheckGlyph ELSE CrossGlyph)]
    ELSE [st EXCEPT !.done = TRUE]

RECURSIVE BuildPasses(_, _, _, _)
BuildPasses(c, days, st, k) ==
    IF k = 0
    THEN IF st.done THEN st ELSE BuildStep(c, days, st)
    ELSE LET m == BuildPasses(c, days, st, k - 1)
         IN  IF m.done THEN m ELSE BuildPasses(c, days, m, k - 1)

\* The strings.Builder loop of StringWithDays: one glyph per index, today first.
BuildGlyphs(c, days, i, result) ==
    BuildPasses(c, days, [i |-> i, result |-> result, done |-> FALSE], 7).result

\* One pass of the loop that reverses the runes: a swap of the runes at the
\* 0-based indices i and j.
ReverseStep(st) ==
    IF st.i < st.j
    THEN [st EXCEPT !.runes = [st.runes EXCEPT ![st.i + 1] = st.runes[st.j + 1],
                                               ![st.j + 1] = st.runes[st.i + 1]],
                    !.i = st.i + 1,
                    !.j = st.j - 1]
    ELSE [st EXCEPT !.done = TRUE]

RECURSIVE ReversePasses(_, _)
ReversePasses(st, k) ==
    IF k = 0
    THEN IF st.done THEN st ELSE ReverseStep(st)
    ELSE LET m == ReversePasses(st, k - 1)
         IN  IF m.done THEN m ELSE ReversePasses(m, k - 1)

\* The two-index swap loop that reverses the runes (0-based i, j).
ReverseRunes(runes, i, j) ==
    ReversePasses([runes |-> runes, i |-> i, j |-> j, done |-> FALSE], 7).runes

\* StringWithDays without the reversal of the runes.
StringWithDaysNoReverse(c, days) == BuildGlyphs(c, ClampDays(days), 0, <<>>)

StringWithDays(c, days) ==
    LET str == BuildGlyphs(c, ClampDays(days), 0, <<>>)
    IN  ReverseRunes(str, 0, Len(str) - 1)

String(c) == StringWithDays(c, DefaultDays)

\* One pass of the loop of GetDaysBitmap: result[i] = (c & (1 << i)) != 0.
BitmapStep(c, days, st) ==
    IF st.i < days
    THEN [st EXCEPT !.i = st.i + 1,
                    !.result = [st.result EXCEPT ![st.i + 1] = TestBit(c, st.i)]]
    ELSE [st EXCEPT !.done = TRUE]

RECURSIVE BitmapPasses(_, _, _, _)
BitmapPasses(c, days, st, k) ==
    IF k = 0
    THEN IF st.done THEN st ELSE BitmapStep(c, days, st)
    ELSE LET m == BitmapPasses(c, days, st, k - 1)
         IN  IF m.done THEN m ELSE BitmapPasses(c, days, m, k - 1)

BitmapLoop(c, days, i, result) ==
    BitmapPasses(c, days, [i |-> i, result |-> result, done |-> FALSE], 7).result

GetDaysBitmap(c, days) ==
    LET n == ClampDays(days)
    IN  BitmapLoop(c, n, 0, [i \in 1 .. n |-> FALSE])

\* One pass of the loop of MaxContinuousDays: on a set bit currentCount++ and
\* maxCount follows it when passed; on a clear bit currentCount = 0.
MaxStep(c, st) ==
    IF st.i < 64
    THEN IF TestBit(c, st.i)
         THEN IF st.currentCount + 1 > st.maxCount
              THEN [st EXCEPT !.i = st.i + 1,
                              !.maxCount = st.currentCount + 1,
                              !.currentCount = st.currentCount + 1]
              ELSE [st EXCEPT !.i = st.i + 1,
                              !.currentCount = st.currentCount + 1]
         ELSE [st EXCEPT !.i = st.i + 1, !.currentCount = 0]
    ELSE [st EXCEPT !.done = TRUE]

RECURSIVE MaxPasses(_, _, _)
MaxPasses(c, st, k) ==
    IF k = 0
    THEN IF st.done THEN st ELSE MaxStep(c, st)
    ELSE LET m == MaxPasses(c, st, k - 1)
         IN  IF m.done THEN m ELSE MaxPasses(c, m, k - 1)

\* The loop of MaxContinuousDays without the reset of the run at a clear bit:
\* currentCount goes on over every set bit from index i up.
MaxLoopNoReset(c, i, maxCount, currentCount) ==
    LET total == currentCount + Cardinality({j \in i .. 63 : TestBit(c, j)})
    IN  IF total > maxCount THEN total ELSE maxCount

MaxLoop(c, i, maxCount, currentCount) ==
    MaxPasses(c, [i |-> i, maxCount |-> maxCount, currentCount |-> currentCount,
                  done |-> FALSE], 7).maxCount

MaxContinuousDays(c) == IF c = {} THEN 0 ELSE MaxLoop(c, 0, 0, 0)

\* CheckinRate dividing by the clamped window instead of the days given.
CheckinRateClampedDen(c, days) ==
    IF days <= 0
    THEN [num |-> 0, den |-> 1]
    ELSE [num |-> TotalDaysInPeriod(c, days), den |-> ClampDays(days)]

\* float64(total) / float64(days), kept as the exact ratio num/den; 0.0 is 0/1.
CheckinRate(c, days) ==
    IF days <= 0
    THEN [num |-> 0, den |-> 1]
    ELSE [num |-> TotalDaysInPeriod(c, days), den |-> days]

\* The magnitude fmt prints for a negative int64: two's complement negation
\* on the 64 bits, that is the complement plus one.  Adding one to the
\* complement clears its low ones and sets its lowest clear bit, which is the
\* lowest set bit of c.
Negate(c) ==
    LET inv == Bits \ c
    IN  IF c = {}
        THEN {}
        ELSE LET j == CHOOSE i \in c : \A m \in c : i <= m
             IN  {i \in inv : i > j} \cup {j}

\* The digits of an unsigned magnitude in base 2, most significant first.
BinaryDigits(u) ==
    IF u = {}
    THEN <<"0">>
    ELSE LET h == HighestBit(u)
         IN  [p \in 1 .. (h + 1) |-> IF (h + 1 - p) \in u THEN "1" ELSE "0"]

\* fmt.Sprintf("0b%b", c) on a signed 64-bit integer: the verb %b prints a
\* minus sign and the magnitude when the value is negative (bit 63 set).
Binary(c) ==
    IF (Width - 1) \in c
    THEN <<"0", "b", "-">> \o BinaryDigits(Negate(c))
    ELSE <<"0", "b">> \o BinaryDigits(c)

-----------------------------------------------------------------------------
(* Bounds and inputs.                                                      *)

\* Mutations applied to a record in the general specification.
MaxSteps == 1

\* ShiftDay calls applied in a row in the shifting specification.
MaxShifts == 66

\* Days driven, and days left without a checkin, in the daily specification.
MaxDays == 66
MaxMissed == 1

\* UserCheckin calls started and DailyShiftTask runs in the service
\* specification.
MaxCalls == 2
MaxRuns == 2

\* The record literal of Example_ContinuousCheckin, 0b1111101.
ExampleRecord == {0, 2, 3, 4, 5, 6}

\* Records the operations start from: the literals of the tests and examples,
\* and records that reach the top of the word.
Seeds ==
    { NewCheckinRecord,
      {0},                          \* 0b1
      {0, 1, 2},                    \* 0b111
      {0, 1, 3},                    \* 0b1011
      {0, 3},                       \* 0b1001
      {0, 2, 4, 6},                 \* 0b1010101
      {0, 2, 3, 4, 6},              \* 0b1011101
      {0, 1, 4, 5, 6},              \* 0b1110011
      {1, 2, 4, 5, 6, 7},           \* 0b11110110
      ExampleRecord,
      Bits,                         \* all 64 days checked
      Bits \ {63},                  \* 63 days checked, today included
      Bits \ {0},                   \* 63 days checked, today missing
      {63},                         \* the sign bit alone
      {0, 1, 61, 62, 63} }          \* a longer run that ends at index 63

\* Records the daily driver starts from: the new record of Example_DayShift,
\* and records read back from storage.
DailySeeds ==
    { NewCheckinRecord,
      {0, 1, 3},                    \* 0b1011
      {0, 2, 4, 6},                 \* 0b1010101
      {1, 2, 4, 5, 6, 7},           \* 0b11110110
      Bits \ {0} }                  \* 63 days checked, today missing

DayInputs == {-1, 0, 5, 63, 64}
DaysInputs == {-1, 0, 1, 3, 7, 64, 65}

-----------------------------------------------------------------------------
(* State.                                                                  *)

VARIABLES
    c,         \* the record held by the caller
    last,      \* the last operation: its name, argument, the record it was
               \* applied to and what it returned (a query) or "none"
    fuel,      \* mutations still allowed
    r,         \* the record at the start of the current run of ShiftDay calls
    k,         \* the number of ShiftDay calls in that run
    day,       \* daily driver: days passed since the record was created
    phase,     \* daily driver: "day" before today's checkin, "checked" after
    n,         \* daily driver: consecutive days checked, today included
    missed,    \* daily driver: days that ended without a checkin
    dayStart,  \* daily driver: the record just before the last midnight shift
    created,   \* daily driver: the record began as NewCheckinRecord()
    store,     \* service: the table user_checkin, one row per user id
    call,      \* service: each caller's UserCheckin in progress
    calls,     \* service: UserCheckin calls started
    runs,      \* service: DailyShiftTask runs
    done       \* service: the last call that returned, and what it did

vars == <<c, last, fuel, r, k, day, phase, n, missed, dayStart, created,
          store, call, calls, runs, done>>

daily == <<day, phase, n, missed, dayStart, created>>

service == <<store, call, calls, runs, done>>

\* What the service leaves alone: the record of a caller of the package.
caller == <<c, last, fuel, r, k, daily>>

\* The callers of the service and the users they check in.
Procs == {"a", "b"}
UserIds == {12345, 12346}

\* A row of user_checkin, and the absence of a row for a user id.
Row(value) == [exists |-> TRUE, record |-> value]
NoRow == [exists |-> FALSE, record |-> {}]

Idle ==
    [pc |-> "idle", user |-> 0, dbValue |-> {}, snap |-> NoRow, nshift |-> 0,
     written |-> FALSE]

Done(name, user, snap, before, err, stmt, nshift, written) ==
    [op |-> name, user |-> user, snap |-> snap, before |-> before, err |-> err,
     stmt |-> stmt, nshift |-> nshift, written |-> written]

\* Rows the table holds on some day of the service's life: the set bits are
\* the days, counted back from today, on which the user's UserCheckin
\* succeeded, DailyShiftTask having run once between two days.
StoreSeeds ==
    { NoRow,
      Row({0}),                     \* checked in today
      Row({1, 2}),                  \* yesterday and the day before
      Row({63}),                    \* 63 days ago, never since
      Row({0, 62}) }                \* today and 62 days ago

\* No call in progress, none made yet.
ServiceIdle ==
    /\ call = [p \in Procs |-> Idle]
    /\ calls = 0
    /\ runs = 0
    /\ done = Done("init", 0, NoRow, NoRow, FALSE, "none", 0, FALSE)

Op(name, arg, before, out) ==
    [op |-> name, arg |-> arg, before |-> before, out |-> out]

InitCaller ==
    /\ last = Op("init", 0, c, "none")
    /\ r = c
    /\ k = 0
    /\ day = 0
    /\ phase = "day"
    /\ n = 0
    /\ missed = 0
    /\ dayStart = c
    /\ created = (c = NewCheckinRecord)

\* A caller of the package alone: the table is as CreateTableSQL leaves it.
InitCommon ==
    /\ InitCaller
    /\ store = [u \in UserIds |-> NoRow]
    /\ ServiceIdle

Init ==
    /\ c \in Seeds
    /\ fuel = MaxSteps
    /\ InitCommon

\* A mutator that is not ShiftDay: the caller replaces its record by the result.
Mutate(name, arg, result) ==
    /\ fuel > 0
    /\ c' = result
    /\ last' = Op(name, arg, c, "none")
    /\ fuel' = fuel - 1
    /\ r' = result
    /\ k' = 0
    /\ UNCHANGED <<daily, service>>

\* A query: the record is left alone and the result is observed.
Query(name, arg, out) ==
    /\ last' = Op(name, arg, c, out)
    /\ UNCHANGED <<c, fuel, r, k, daily, service>>

DoCheckin == Mutate("Checkin", 0, Checkin(c))

DoCheckinDay == \E d \in DayInputs : Mutate("CheckinDay", d, CheckinDay(c, d))

DoClear == Mutate("Clear", 0, Clear(c))

DoShiftDay ==
    /\ fuel > 0
    /\ c' = ShiftDay(c)
    /\ last' = Op("ShiftDay", 0, c, "none")
    /\ fuel' = fuel - 1
    /\ r' = r
    /\ k' = k + 1
    /\ UNCHANGED <<daily, service>>

DoIsCheckedToday == Query("IsCheckedToday", 0, IsCheckedToday(c))

DoIsCheckedDay == \E d \in DayInputs : Query("IsCheckedDay", d, IsCheckedDay(c, d))

DoContinuousDays == Query("ContinuousDays", 0, ContinuousDays(c))

DoTotalDaysInPeriod ==
    \E d \in DaysInputs : Query("TotalDaysInPeriod", d, TotalDaysInPeriod(c, d))

DoString == Query("String", 0, String(c))

DoStringWithDays ==
    \E d \in DaysInputs : Query("StringWithDays", d, StringWithDays(c, d))

DoBinary == Query("Binary", 0, Binary(c))

DoGetDaysBitmap ==
    \E d \in DaysInputs : Query("GetDaysBitmap", d, GetDaysBitmap(c, d))

DoMaxContinuousDays == Query("MaxContinuousDays", 0, MaxContinuousDays(c))

DoCheckinRate == \E d \in DaysInputs : Query("CheckinRate", d, CheckinRate(c, d))

Next ==
    \/ DoCheckin
    \/ DoCheckinDay
    \/ DoClear
    \/ DoShiftDay
    \/ DoIsCheckedToday
    \/ DoIsCheckedDay
    \/ DoContinuousDays
    \/ DoTotalDaysInPeriod
    \/ DoString
    \/ DoStringWithDays
    \/ DoBinary
    \/ DoGetDaysBitmap
    \/ DoMaxContinuousDays
    \/ DoCheckinRate

Spec == Init /\ [][Next]_vars

-----------------------------------------------------------------------------
(* The shifting specification: a record is shifted day after day, with no  *)
(* checkin in between, and today's bit is read.                            *)

InitShift ==
    /\ c \in Seeds
    /\ fuel = MaxShifts
    /\ InitCommon

NextShift ==
    \/ DoShiftDay
    \/ DoIsCheckedToday

SpecShift == InitShift /\ [][NextShift]_vars

-----------------------------------------------------------------------------
(* The daily specification: Example_DayShift carried on for MaxDays days.  *)
(* The record is created or read back, the user checks in at most once a   *)
(* day, and the scheduler shifts the record once at every midnight.        *)

InitDaily ==
    /\ c \in DailySeeds
    /\ fuel = 0
    /\ InitCommon

\* record = record.Checkin(): today's checkin.
DayCheckin ==
    /\ phase = "day"
    /\ c' = Checkin(c)
    /\ last' = Op("Checkin", 0, c, "none")
    /\ phase' = "checked"
    /\ n' = n + 1
    /\ r' = Checkin(c)
    /\ k' = 0
    /\ UNCHANGED <<fuel, day, missed, dayStart, created, service>>

\* record = record.ShiftDay(): midnight, the next day begins.
Midnight ==
    /\ day < MaxDays
    /\ phase = "checked" \/ missed < MaxMissed
    /\ c' = ShiftDay(c)
    /\ last' = Op("ShiftDay", 0, c, "none")
    /\ phase' = "day"
    /\ day' = day + 1
    /\ n' = IF phase = "checked" THEN n ELSE 0
    /\ missed' = IF phase = "checked" THEN missed ELSE missed + 1
    /\ dayStart' = c
    /\ r' = r
    /\ k' = k + 1
    /\ UNCHANGED <<fuel, created, service>>

NextDaily ==
    \/ DayCheckin
    \/ Midnight
    \/ DoContinuousDays

SpecDaily == InitDaily /\ [][NextDaily]_vars

-----------------------------------------------------------------------------
(* The service specification: callers run UserCheckin, which reads the     *)
(* user's row and writes it back in two separate statements with no        *)
(* transaction around them, while the scheduler runs DailyShiftTask.  Each *)
(* SQL statement is one atomic step of the store.                          *)

\* SELECT record ... Scan(&dbValue): sql.ErrNoRows leaves dbValue = 0.
ScanRecord(row) == IF row.exists THEN row.record ELSE {}

\* INSERT INTO user_checkin (user_id, record) VALUES (?, ?): user_id is the
\* primary key, so a second row for the same user is refused with an error.
ExecInsert(tbl, u, value) ==
    IF tbl[u].exists
    THEN [store |-> tbl, err |-> TRUE]
    ELSE [store |-> [tbl EXCEPT ![u] = Row(value)], err |-> FALSE]

\* The UPDATE of UserCheckin done in the store as record = record | 1.
ExecUpdateOrOne(tbl, u, value) ==
    IF tbl[u].exists
    THEN [store |-> [tbl EXCEPT ![u] = Row(tbl[u].record \cup OneShl(0))], err |-> FALSE]
    ELSE [store |-> tbl, err |-> FALSE]

\* UPDATE user_checkin SET record = ? WHERE user_id = ?: the row, if there
\* is one, takes the value the caller computed.
ExecUpdate(tbl, u, value) ==
    IF tbl[u].exists
    THEN [store |-> [tbl EXCEPT ![u] = Row(value)], err |-> FALSE]
    ELSE [store |-> tbl, err |-> FALSE]

\* UPDATE user_checkin SET record = record << 1: every row is shifted; the
\* code takes the shift of the store to be the shift of the int64.
ExecShiftAll(tbl) ==
    [u \in UserIds |-> IF tbl[u].exists THEN Row(ShiftDay(tbl[u].record)) ELSE NoRow]

\* The callers, other than p, that have read the row of user u and have not
\* written yet.
Waiting(p, u) == {q \in Procs \ {p} : call[q].pc = "selected" /\ call[q].user = u}

\* UserCheckin, step 1: the SELECT and the handling of sql.ErrNoRows.
UserCheckinSelect(p) ==
    /\ call[p].pc = "idle"
    /\ calls < MaxCalls
    /\ \E u \in UserIds :
          call' = [call EXCEPT ![p] =
                     [pc |-> "selected", user |-> u, dbValue |-> ScanRecord(store[u]),
                      snap |-> store[u], nshift |-> 0, written |-> FALSE]]
    /\ calls' = calls + 1
    /\ UNCHANGED <<store, runs, done, caller>>

\* UserCheckin, steps 2 to 5: the check of today's bit, Checkin, and the
\* INSERT or UPDATE chosen by dbValue == 0.
UserCheckinSave(p) ==
    /\ call[p].pc = "selected"
    /\ LET u == call[p].user
           dbValue == call[p].dbValue
           record == FromInt64(dbValue)
           newValue == ToInt64(Checkin(record))
           stmt == IF IsCheckedToday(record) THEN "none"
                   ELSE IF dbValue = {} THEN "INSERT" ELSE "UPDATE"
           res == IF stmt = "none" THEN [store |-> store, err |-> TRUE]
                  ELSE IF stmt = "INSERT" THEN ExecInsert(store, u, newValue)
                  ELSE ExecUpdate(store, u, newValue)
       IN  /\ store' = res.store
           /\ done' = Done("UserCheckin", u, call[p].snap, store[u], res.err, stmt,
                           call[p].nshift, call[p].written)
           /\ call' = [q \in Procs |->
                         IF q = p THEN Idle
                         ELSE IF q \in Waiting(p, u) /\ stmt # "none" /\ ~res.err
                              THEN [call[q] EXCEPT !.written = TRUE]
                              ELSE call[q]]
    /\ UNCHANGED <<calls, runs, caller>>

\* DailyShiftTask: one UPDATE over the whole table.
DailyShiftTask ==
    /\ runs < MaxRuns
    /\ store' = ExecShiftAll(store)
    /\ runs' = runs + 1
    /\ call' = [q \in Procs |->
                  IF call[q].pc = "selected" /\ store[call[q].user].exists
                  THEN [call[q] EXCEPT !.nshift = Min(call[q].nshift + 1, 2)]
                  ELSE call[q]]
    /\ done' = Done("DailyShiftTask", 0, NoRow, NoRow, FALSE, "UPDATE", 0, FALSE)
    /\ UNCHANGED <<calls, caller>>

NextService ==
    \/ \E p \in Procs : UserCheckinSelect(p)
    \/ \E p \in Procs : UserCheckinSave(p)
    \/ DailyShiftTask

\* The table on some day of the service's life.
InitStore ==
    /\ c = NewCheckinRecord
    /\ fuel = 0
    /\ InitCaller
    /\ store \in [UserIds -> StoreSeeds]
    /\ ServiceIdle

SpecService == InitStore /\ [][NextService]_vars

-----------------------------------------------------------------------------
(* What the claims compare the code with, stated on the bits themselves.   *)

\* The window a days argument stands for.
Window(days) == IF 1 <= days /\ days <= Width THEN days ELSE Width

\* The number of consecutive set bits from index 0 up to the first clear one.
RunFromToday(s) ==
    CHOOSE m \in 0 .. Width :
        /\ \A i \in 0 .. (m - 1) : i \in s
        /\ m < Width => m \notin s

HasRun(s, len) == \E a \in 0 .. (Width - len) : \A i \in a .. (a + len - 1) : i \in s

\* The length of the longest run of consecutive set bits.
LongestRun(s) ==
    CHOOSE len \in 0 .. Width :
        /\ HasRun(s, len)
        /\ len < Width => ~HasRun(s, len + 1)

\* The bit pattern most significant bit first, leading zero bits omitted.
RawBits(s) ==
    IF s = {}
    THEN <<"0">>
    ELSE [p \in 1 .. (HighestBit(s) + 1) |->
            IF (HighestBit(s) + 1 - p) \in s THEN "1" ELSE "0"]

-----------------------------------------------------------------------------
(* The claims.                                                             *)

\* C1: after k consecutive ShiftDay calls on a record r, bit i of the result
\* is bit i-k of r for k <= i < 64 and is clear for i < k (nothing wraps
\* round from bit 63 and nothing is sign-extended), so IsCheckedToday is
\* false after at least one shift and the record is 0 after 64 shifts.
C1_ShiftDayIsLogicalShift ==
    /\ \A i \in Bits : (i \in c) <=> (i >= k /\ (i - k) \in r)
    /\ (last.op = "IsCheckedToday" /\ k >= 1) => last.out = FALSE
    /\ k >= Width => c = {}

\* C1 witness: the fully set record has been shifted 64 times and is 0.
C1_Witness ==
    /\ k = Width
    /\ r = Bits
    /\ c = {}
    /\ last.op = "IsCheckedToday"

\* C2: CheckinDay(day) with 0 <= day < 64 sets bit day, the sign bit 63
\* included, and leaves the other 63 bits alone, and IsCheckedDay(day) is then
\* true; with day outside that range CheckinDay returns the record unchanged
\* and IsCheckedDay returns false.
C2_CheckinDayRange ==
    /\ last.op = "CheckinDay" =>
         IF last.arg \in Bits
         THEN /\ last.arg \in c
              /\ \A i \in Bits \ {last.arg} : (i \in c) <=> (i \in last.before)
              /\ IsCheckedDay(c, last.arg)
         ELSE /\ c = last.before
              /\ ~IsCheckedDay(c, last.arg)
    /\ last.op = "IsCheckedDay" =>
         last.out = (last.arg \in Bits /\ last.arg \in c)

\* C2 witness: CheckinDay(63) has set the sign bit of a record that lacked it.
C2_Witness ==
    /\ last.op = "CheckinDay"
    /\ last.arg = 63
    /\ 63 \notin last.before
    /\ 63 \in c

\* C3: ContinuousDays is the number of consecutive set bits from index 0 up to
\* the first clear bit: 0 when bit 0 is clear, blind to bits beyond the first
\* clear one (0b1011 gives 2), 64 when every bit is set, always within 0..64.
C3_ContinuousDays ==
    last.op = "ContinuousDays" =>
        /\ last.out = RunFromToday(c)
        /\ last.out \in 0 .. 64
        /\ 0 \notin c => last.out = 0
        /\ c = Bits => last.out = 64
        /\ c = {0, 1, 3} => last.out = 2

\* C3 witness: the streak of 0b1011 has been read as 2.
C3_Witness ==
    /\ last.op = "ContinuousDays"
    /\ c = {0, 1, 3}
    /\ last.out = 2

\* C4: MaxContinuousDays is the length of the longest run of consecutive set
\* bits anywhere in 0..63, a run ending at index 63 or not starting at index 0
\* included; it is 0 exactly for the record 0 and never below ContinuousDays.
C4_MaxContinuousDays ==
    last.op = "MaxContinuousDays" =>
        /\ last.out = LongestRun(c)
        /\ (last.out = 0) <=> (c = {})
        /\ last.out >= ContinuousDays(c)

\* C4 witness: the longest run ends at index 63 and is longer than the streak.
C4_Witness ==
    /\ last.op = "MaxContinuousDays"
    /\ c = {0, 1, 61, 62, 63}
    /\ last.out = 3

\* C5: TotalDaysInPeriod(days) is the number of set bits among the indices
\* below w, where w is days for 1 <= days <= 64 and 64 otherwise; the result
\* is within 0..w.
C5_TotalDaysInPeriod ==
    last.op = "TotalDaysInPeriod" =>
        /\ last.out = Cardinality(c \cap (0 .. (Window(last.arg) - 1)))
        /\ last.out \in 0 .. Window(last.arg)

\* C5 witness: a window of 0 days has counted all 64 days of the full record.
C5_Witness ==
    /\ last.op = "TotalDaysInPeriod"
    /\ last.arg = 0
    /\ c = Bits
    /\ last.out = 64

\* C6: CheckinRate(days) is 0 for days <= 0 and otherwise the ratio of the
\* set bits in the window clamped to 64 to the days the caller gave; it is
\* within [0, 1], and strictly below 1 for days > 64.
C6_CheckinRate ==
    last.op = "CheckinRate" =>
        /\ last.arg <= 0 => last.out.num = 0
        /\ last.arg > 0 =>
             /\ last.out.num = Cardinality(c \cap (0 .. (Window(last.arg) - 1)))
             /\ last.out.den = last.arg
        /\ last.out.den > 0
        /\ 0 <= last.out.num
        /\ last.out.num <= last.out.den
        /\ last.arg > 64 => last.out.num < last.out.den

\* C6 witness: the full record has the rate 64/65 over 65 days.
C6_Witness ==
    /\ last.op = "CheckinRate"
    /\ last.arg = 65
    /\ c = Bits
    /\ last.out = [num |-> 64, den |-> 65]

\* C7: StringWithDays(days) is w glyphs, the one at position p from the left
\* being the check glyph iff bit w-1-p is set; GetDaysBitmap(days) is w
\* booleans, element i being whether bit i is set; each is the reverse of the
\* other; String() is StringWithDays(7).
C7_RenderAndBitmap ==
    LET w == Window(last.arg)
    IN  /\ last.op = "StringWithDays" =>
             /\ Len(last.out) = w
             /\ \A p \in 0 .. (w - 1) :
                    /\ last.out[p + 1] \in {CheckGlyph, CrossGlyph}
                    /\ (last.out[p + 1] = CheckGlyph) <=> ((w - 1 - p) \in c)
                    /\ (last.out[p + 1] = CheckGlyph) <=> GetDaysBitmap(c, last.arg)[w - p]
        /\ last.op = "GetDaysBitmap" =>
             /\ Len(last.out) = w
             /\ \A i \in 0 .. (w - 1) : last.out[i + 1] = (i \in c)
             /\ \A i \in 0 .. (w - 1) :
                    last.out[i + 1] = (StringWithDays(c, last.arg)[w - i] = CheckGlyph)
        /\ last.op = "String" => last.out = StringWithDays(c, 7)

\* C7 witness: 0b1011 over 3 days has been rendered cross, check, check.
C7_Witness ==
    /\ last.op = "StringWithDays"
    /\ last.arg = 3
    /\ c = {0, 1, 3}
    /\ last.out = <<CrossGlyph, CheckGlyph, CheckGlyph>>

\* C8: Binary is "0b" followed by the raw bit pattern of the record, most
\* significant bit first, leading zero bits omitted, with no sign character
\* even when bit 63 is set.
C8_BinaryIsRawBits ==
    last.op = "Binary" => last.out = <<"0", "b">> \o RawBits(c)

\* C9: for the record 0b1111101 of Example_ContinuousCheckin,
\* StringWithDays(7) is cross then six checks, ContinuousDays is 5,
\* MaxContinuousDays is 5 and TotalDaysInPeriod(7) is 6.
C9_ExampleOutput ==
    c = ExampleRecord =>
        /\ (last.op = "StringWithDays" /\ last.arg = 7) =>
               last.out = <<CrossGlyph, CheckGlyph, CheckGlyph, CheckGlyph,
                            CheckGlyph, CheckGlyph, CheckGlyph>>
        /\ last.op = "ContinuousDays" => last.out = 5
        /\ last.op = "MaxContinuousDays" => last.out = 5
        /\ (last.op = "TotalDaysInPeriod" /\ last.arg = 7) => last.out = 6

\* C10: for every record r, a checkin after one shift of r gives the streak
\* min(streak of r + 1, 64); so from a new record, n consecutive days with a
\* checkin and one shift between them give the streak min(n, 64), and after a
\* shift with no checkin yet the streak is 0.
C10_DailyStreak ==
    last.op = "ContinuousDays" =>
        /\ (phase = "checked" /\ day >= 1) =>
               last.out = Min(ContinuousDays(dayStart) + 1, 64)
        /\ (phase = "checked" /\ created) => last.out = Min(n, 64)
        /\ (phase = "day" /\ day >= 1) => last.out = 0

\* C10 witness: 65 days in a row were checked and the streak read is 64.
C10_Witness ==
    /\ last.op = "ContinuousDays"
    /\ phase = "checked"
    /\ created
    /\ n = 65
    /\ missed = 0
    /\ last.out = 64

\* C11: a UserCheckin that no other statement interleaves with, for a user
\* with no row or whose row has bit 0 clear (a row holding 0 included),
\* returns no error and leaves the row holding the previous value with bit 0
\* set; when bit 0 is already set it returns an error and leaves the row as
\* it was.
C11_UserCheckinOutcome ==
    (done.op = "UserCheckin" /\ done.before = done.snap) =>
        IF ~done.snap.exists \/ 0 \notin done.snap.record
        THEN /\ ~done.err
             /\ store[done.user] = Row(done.snap.record \cup {0})
        ELSE /\ done.err
             /\ store[done.user] = done.before

\* C12: the UPDATE of UserCheckin writes the value computed from its SELECT
\* over whatever DailyShiftTask or another UserCheckin wrote to the row in
\* between; after exactly one DailyShiftTask in between, the row holds the
\* unshifted record with bit 0 set, which is neither the result of the shift
\* followed by the checkin nor that of the checkin followed by the shift.
C12_UpdateOverwrites ==
    (/\ done.op = "UserCheckin"
     /\ done.stmt = "UPDATE"
     /\ ~done.err
     /\ done.nshift >= 1 \/ done.written) =>
        /\ store[done.user] = Row(done.snap.record \cup {0})
        /\ (done.nshift = 1 /\ ~done.written) =>
               /\ done.before = Row(ShiftDay(done.snap.record))
               /\ store[done.user].record # Checkin(ShiftDay(done.snap.record))
               /\ store[done.user].record # ShiftDay(Checkin(done.snap.record))

\* C12 witness: the row {1, 2} was read, shifted to {2, 3} by DailyShiftTask,
\* and then overwritten with {0, 1, 2}: the shift is lost.
C12_Witness ==
    /\ done.op = "UserCheckin"
    /\ done.stmt = "UPDATE"
    /\ done.nshift = 1
    /\ ~done.written
    /\ done.snap = Row({1, 2})
    /\ done.before = Row({2, 3})
    /\ store[done.user] = Row({0, 1, 2})

====
